---- MODULE Spec2Model ----
(***************************************************************************)
(* State-machine model of the monthly report edge function                 *)
(* (supabase/functions/send-monthly-report/index.ts) and of the service    *)
(* worker (public/sw.js).                                                  *)
(*                                                                         *)
(* The handler is one async function; every await is a point where a       *)
(* collaborator answers, so each action is the code that runs between two  *)
(* awaits, selected by the collaborator's answer (data, returned error, or *)
(* thrown exception).                                                      *)
(***************************************************************************)
EXTENDS Integers, Sequences, FiniteSets, TLC

VARIABLES
    method,              \* req.method of the request being served
    pc,                  \* position of the handler
    now,                 \* new Date() of the run: local calendar fields and UTC offset
    businessesTable,     \* stored rows of table "businesses"
    appointmentsTable,   \* stored rows of "appointments" matched by the query, per business id
    listing,             \* outcome of the listing of the active businesses
    businesses,          \* handler local: data of the listing
    idx,                 \* loop cursor of for (const business of businesses)
    firstDayLastMonth,   \* handler local
    lastDayLastMonth,    \* handler local
    queries,             \* appointment queries issued, in order, each with its outcome
    appointments,        \* handler local: data of the current appointment query
    reportData,          \* handler local: MonthlyReportData of the current business
    emails,              \* resend.emails.send calls, in order
    console,             \* console.log / console.error lines, in order
    response,            \* the Response returned, or NoResponse
    summaries,           \* the MonthlyReportData objects built by the run, in order
    history,             \* the runs served before the current one, in order
    swState,             \* service worker (public/sw.js): its lifecycle state
    cache,               \* service worker: the entries of the cache CACHE_NAME
    fetchEvents,         \* service worker: the fetch events handled, each with its progress
    modal,               \* auth modals: the component that is mounted
    open,                \* auth modals: prop open of the dialog
    loading,             \* auth modals: state loading
    captchaToken,        \* auth modals: state captchaToken
    showForgotPassword,  \* auth modals: state showForgotPassword (AuthModal: showResetPassword)
    activeTab,           \* auth modals: the tab of <Tabs> that is shown
    fieldsValid,         \* auth modals: whether what is typed passes the handlers' checks
    tokensIssued,        \* auth modals: number of tokens the captcha widget has handed out
    authCalls            \* auth modals: the calls to supabase.auth, in order

vars == <<method, pc, now, businessesTable, appointmentsTable, history, summaries, listing, businesses, idx,
          firstDayLastMonth, lastDayLastMonth, queries, appointments, reportData,
          emails, console, response, swState, cache, fetchEvents,
          modal, open, loading, captchaToken, showForgotPassword, activeTab, fieldsValid,
          tokensIssued, authCalls>>

\* The state of the service worker.
swVars == <<swState, cache, fetchEvents>>

\* The state of the mounted auth modal.
authVars == <<modal, open, loading, captchaToken, showForgotPassword, activeTab, fieldsValid,
              tokensIssued, authCalls>>

-----------------------------------------------------------------------------
(* Bounds of the model *)

MaxBusinesses == 2

\* Longest appointment list over all services whose ranking is computed.
MaxRankedAppts == 4

\* Most rows that follow one row of each service in a list whose ranking is computed.
MaxExtraAppts == 1

\* Longest appointment list whose revenue is computed.
MaxPricedAppts == 3

\* Longest appointment list whose customers are counted.
MaxCustomerAppts == 3

\* Most requests served one after the other.
MaxRuns == 2

\* Most fetch events the service worker handles.
MaxFetchEvents == 2

\* Most tokens the captcha widget hands out.
MaxTokens == 2

\* Most calls to supabase.auth.
MaxAuthCalls == 2

\* Largest totalAppointments a report is rendered for.
MaxTotal == 17

-----------------------------------------------------------------------------
(* Values *)

NULL == "<null>"

Min(a, b) == IF a < b THEN a ELSE b

\* JavaScript truthiness of a nullable string: null, undefined and "" are falsy.
Truthy(s) == s # NULL /\ s # ""

\* x || d on a nullable string.
OrElse(s, d) == IF Truthy(s) THEN s ELSE d

corsHeaders ==
    { <<"Access-Control-Allow-Origin", "*">>,
      <<"Access-Control-Allow-Headers", "authorization, x-client-info, apikey, content-type">> }

jsonHeaders == corsHeaders \cup { <<"Content-Type", "application/json">> }

NoResponse == [status |-> 0, headers |-> {}, body |-> {}]

-----------------------------------------------------------------------------
(* JavaScript Date, as far as the handler uses it.  A date is the local    *)
(* calendar day [y, m, d] with m the 0-based month index; every Date the   *)
(* handler builds is a local midnight.  now.off is the process's local UTC *)
(* offset in hours (positive east of Greenwich).                           *)

IsLeapYear(y) == (y % 4 = 0 /\ y % 100 # 0) \/ y % 400 = 0

DaysInMonth(y, m) ==
    IF m = 1 THEN (IF IsLeapYear(y) THEN 29 ELSE 28)
    ELSE IF m \in {3, 5, 8, 10} THEN 30 ELSE 31

\* new Date(year, monthIndex, day): a month index outside 0..11 carries into
\* the year, a day below 1 counts back from the end of the month before.
NewDate(y, m, d) ==
    LET yy == y + (m \div 12)
        mm == m % 12
        py == IF mm = 0 THEN yy - 1 ELSE yy
        pm == IF mm = 0 THEN 11 ELSE mm - 1
    IN  IF d >= 1 THEN [y |-> yy, m |-> mm, d |-> d]
        ELSE [y |-> py, m |-> pm, d |-> DaysInMonth(py, pm) + d]

\* new Date(now.getFullYear(), now.getMonth() - 1, 1)
FirstDayLastMonth(n) == NewDate(n.y, n.m - 1, 1)

\* new Date(now.getFullYear(), now.getMonth(), 0)
LastDayLastMonth(n) == NewDate(n.y, n.m, 0)

Pad2(n) == IF n < 10 THEN "0" \o ToString(n) ELSE ToString(n)

FormatYMD(date) == ToString(date.y) \o "-" \o Pad2(date.m + 1) \o "-" \o Pad2(date.d)

\* date.toISOString().split("T")[0]: toISOString prints the instant in UTC.
\* The instant is local midnight, which is 00:00 - off in UTC: the day
\* before when the offset is positive, the same day otherwise.
ToISODateString(date, off) ==
    LET utc == IF off > 0 THEN NewDate(date.y, date.m, date.d - 1) ELSE date
    IN  FormatYMD(utc)

MonthNames ==
    << "January", "February", "March", "April", "May", "June", "July",
       "August", "September", "October", "November", "December" >>

\* startDate.toLocaleDateString("en-US", { month: "long", year: "numeric" })
MonthYear(date) == MonthNames[date.m + 1] \o " " \o ToString(date.y)

-----------------------------------------------------------------------------
(* Numbers and their text.  Text that is parsed is a sequence of           *)
(* one-character strings.  Amounts are non-negative integers.              *)

DigitChars == << "0", "1", "2", "3", "4", "5", "6", "7", "8", "9" >>

IsDigit(c) == \E i \in 1..10 : DigitChars[i] = c

DigitVal(c) == (CHOOSE i \in 1..10 : DigitChars[i] = c) - 1

RECURSIVE NumToStr(_)
\* Number.prototype.toString of a non-negative integer
NumToStr(n) ==
    IF n < 10 THEN << DigitChars[n + 1] >>
    ELSE Append(NumToStr(n \div 10), DigitChars[(n % 10) + 1])

NaN == [nan |-> TRUE, v |-> 0]

Num(n) == [nan |-> FALSE, v |-> n]

RECURSIVE DigitPrefixVal(_, _)
\* value of the longest prefix of digits of text, continuing from acc
DigitPrefixVal(text, acc) ==
    IF text = <<>> \/ ~IsDigit(Head(text)) THEN acc
    ELSE DigitPrefixVal(Tail(text), acc * 10 + DigitVal(Head(text)))

\* parseFloat(text): the number the longest numeric prefix denotes, NaN when
\* the text does not start with one.
ParseFloat(text) ==
    IF text = <<>> \/ ~IsDigit(Head(text)) THEN NaN
    ELSE Num(DigitPrefixVal(text, 0))

\* a + b on JavaScript numbers: NaN is absorbing.
JsAdd(a, b) == IF a.nan \/ b.nan THEN NaN ELSE Num(a.v + b.v)

\* x || 0 on a JavaScript number: NaN and 0 are falsy.
NumOrZero(x) == IF x.nan THEN 0 ELSE x.v

Pow10(f) == IF f = 0 THEN 1 ELSE IF f = 1 THEN 10 ELSE 100

RECURSIVE PadFrac(_, _)
PadFrac(text, f) == IF Len(text) >= f THEN text ELSE PadFrac(<<"0">> \o text, f)

\* ToFixed cutting the digits off instead of rounding.
ToFixedTruncating(num, den, f) ==
    LET n == (num * Pow10(f)) \div den
    IN  IF f = 0 THEN NumToStr(n)
        ELSE NumToStr(n \div Pow10(f)) \o <<".">> \o PadFrac(NumToStr(n % Pow10(f)), f)

\* (num / den).toFixed(f) for f in 0..2, num >= 0, den > 0: the decimal with
\* f fraction digits nearest to the value, the larger one when two are
\* equally near.
ToFixed(num, den, f) ==
    LET n == (2 * num * Pow10(f) + den) \div (2 * den)
    IN  IF f = 0 THEN NumToStr(n)
        ELSE NumToStr(n \div Pow10(f)) \o <<".">> \o PadFrac(NumToStr(n % Pow10(f)), f)

-----------------------------------------------------------------------------
(* The metrics of one business (handler, "Calculate metrics").  An         *)
(* appointment row is [status, final_price, service_name, customer_id];    *)
(* final_price is [t |-> "null"], [t |-> "num", v |-> n] or                *)
(* [t |-> "str", s |-> text]; service_name is services.name, NULL when the *)
(* row has no service; customer_id may be NULL.                            *)

TopN == 5

NoPrice == [t |-> "null"]

NumPrice(n) == [t |-> "num", v |-> n]

StrPrice(text) == [t |-> "str", s |-> text]

\* a.final_price?.toString() || "0"
PriceText(p) ==
    LET text == IF p.t = "num" THEN NumToStr(p.v) ELSE IF p.t = "str" THEN p.s ELSE <<>>
    IN  IF text = <<>> THEN <<"0">> ELSE text

\* appointments.filter(a => a.status === s).length
CountStatus(appts, s) == Len(SelectSeq(appts, LAMBDA a : a.status = s))

RECURSIVE SumPrices(_, _)
\* .reduce((sum, a) => sum + parseFloat(...), 0), left to right
SumPrices(appts, sum) ==
    IF appts = <<>> THEN sum
    ELSE SumPrices(Tail(appts), JsAdd(sum, ParseFloat(PriceText(Head(appts).final_price))))

\* totalRevenue: the sum over the completed rows, || 0
TotalRevenue(appts) ==
    NumOrZero(SumPrices(SelectSeq(appts, LAMBDA a : a.status = "completed"), Num(0)))

\* NewCustomers over the completed rows only.
NewCustomersCompleted(appts) ==
    Cardinality({ appts[i].customer_id :
                    i \in { j \in 1..Len(appts) : /\ Truthy(appts[j].customer_id)
                                                   /\ appts[j].status = "completed" } })

\* new Set(appointments.map(a => a.customer_id).filter(Boolean)).size
NewCustomers(appts) ==
    Cardinality({ appts[i].customer_id : i \in { j \in 1..Len(appts) : Truthy(appts[j].customer_id) } })

\* serviceCounts.get(name) || 0 on a Map kept as its entries in insertion order
MapGet(entries, name) ==
    IF \E i \in 1..Len(entries) : entries[i].name = name
    THEN entries[CHOOSE i \in 1..Len(entries) : entries[i].name = name].count
    ELSE 0

\* serviceCounts.set(name, count): a present key keeps its place, a new key goes last
MapSet(entries, name, count) ==
    IF \E i \in 1..Len(entries) : entries[i].name = name
    THEN [i \in 1..Len(entries) |->
            IF entries[i].name = name THEN [name |-> name, count |-> count] ELSE entries[i]]
    ELSE Append(entries, [name |-> name, count |-> count])

RECURSIVE ServiceCounts(_, _)
\* appointments.forEach(a => { if (a.services?.name) serviceCounts.set(...) })
ServiceCounts(appts, entries) ==
    IF appts = <<>> THEN entries
    ELSE LET name == Head(appts).service_name
         IN  ServiceCounts(Tail(appts),
                 IF Truthy(name) THEN MapSet(entries, name, MapGet(entries, name) + 1)
                 ELSE entries)

\* InsertByCount putting e before the elements of its own count.
InsertByCountUnstable(sorted, e) ==
    LET k == Cardinality({ i \in 1..Len(sorted) : sorted[i].count > e.count })
    IN  SubSeq(sorted, 1, k) \o <<e>> \o SubSeq(sorted, k + 1, Len(sorted))

\* Where e goes in a list sorted by (a, b) => b.count - a.count when it is
\* inserted after the elements it does not precede: behind every element
\* whose count is at least its own.
InsertByCount(sorted, e) ==
    LET k == Cardinality({ i \in 1..Len(sorted) : sorted[i].count >= e.count })
    IN  SubSeq(sorted, 1, k) \o <<e>> \o SubSeq(sorted, k + 1, Len(sorted))

RECURSIVE SortByCountDesc(_, _)
\* .sort((a, b) => b.count - a.count): Array.prototype.sort is stable
SortByCountDesc(entries, sorted) ==
    IF entries = <<>> THEN sorted
    ELSE SortByCountDesc(Tail(entries), InsertByCount(sorted, Head(entries)))

\* .slice(0, n)
Slice(s, n) == SubSeq(s, 1, Min(n, Len(s)))

\* topServices
TopServices(appts) == Slice(SortByCountDesc(ServiceCounts(appts, <<>>), <<>>), TopN)

NoReport ==
    [businessId |-> 0, businessName |-> NULL, ownerEmail |-> NULL,
     totalAppointments |-> 0, completedAppointments |-> 0, cancelledAppointments |-> 0,
     totalRevenue |-> 0, newCustomers |-> 0, topServices |-> <<>>, currency |-> NULL]

\* const reportData: MonthlyReportData = { ... }
BuildReportData(business, appts) ==
    [businessId            |-> business.id,
     businessName          |-> business.name,
     ownerEmail            |-> OrElse(business.email, ""),
     totalAppointments     |-> Len(appts),
     completedAppointments |-> CountStatus(appts, "completed"),
     cancelledAppointments |-> CountStatus(appts, "cancelled"),
     totalRevenue          |-> TotalRevenue(appts),
     newCustomers          |-> NewCustomers(appts),
     topServices           |-> TopServices(appts),
     currency              |-> OrElse(business.currency, "NGN")]

-----------------------------------------------------------------------------
(* sendMonthlyReport: the values the template embeds and the call to the   *)
(* email API.                                                              *)

\* completionRate
CompletionRate(data) ==
    IF data.totalAppointments > 0
    THEN ToFixed(100 * data.completedAppointments, data.totalAppointments, 1)
    ELSE <<"0">>

\* AverageRevenue per appointment of any status.
AverageRevenuePerAppointment(data) ==
    IF data.totalAppointments > 0
    THEN ToFixed(data.totalRevenue, data.totalAppointments, 2)
    ELSE <<"0">>

\* the average in "Average revenue per completed appointment"
AverageRevenue(data) ==
    IF data.completedAppointments > 0
    THEN ToFixed(data.totalRevenue, data.completedAppointments, 2)
    ELSE <<"0">>

\* The html template, kept as the values it interpolates.
RenderHtml(data, startDate) ==
    [monthYear             |-> MonthYear(startDate),
     businessName          |-> data.businessName,
     totalAppointments     |-> data.totalAppointments,
     currency              |-> data.currency,
     totalRevenue          |-> data.totalRevenue,
     completedAppointments |-> data.completedAppointments,
     completionRate        |-> CompletionRate(data),
     newCustomers          |-> data.newCustomers,
     topServices           |-> data.topServices,
     cancelledAppointments |-> data.cancelledAppointments,
     averageRevenue        |-> AverageRevenue(data)]

\* EmailCall addressed to the sender.
EmailCallToSender(data, startDate) ==
    [from       |-> "Boji <admin@bojiapp.me>",
     to         |-> << "admin@bojiapp.me" >>,
     subject    |-> "Your Monthly Report - " \o MonthYear(startDate),
     html       |-> RenderHtml(data, startDate),
     businessId |-> data.businessId,
     result     |-> "pending"]

\* The argument of resend.emails.send, with the business the report is of.
EmailCall(data, startDate) ==
    [from       |-> "Boji <admin@bojiapp.me>",
     to         |-> << data.ownerEmail >>,
     subject    |-> "Your Monthly Report - " \o MonthYear(startDate),
     html       |-> RenderHtml(data, startDate),
     businessId |-> data.businessId,
     result     |-> "pending"]

-----------------------------------------------------------------------------
(* Stored data and inputs of a run *)

BusinessName(i) == "biz" \o ToString(i)

OwnerEmail(i) == "owner" \o ToString(i) \o "@biz.test"

\* The stored currency of business i: set for the odd ids, missing for the even ones.
BusinessCurrency(i) == IF i % 2 = 1 THEN "USD" ELSE NULL

\* The rows a business with id i may be stored as.
BusinessRows(i) ==
    { [id |-> i, name |-> BusinessName(i), email |-> e, currency |-> BusinessCurrency(i),
       is_active |-> a] :
        e \in {NULL, "", OwnerEmail(i)}, a \in BOOLEAN }

\* Tables "businesses" of at most MaxBusinesses rows; the row at position i has id i.
BusinessTables ==
    UNION { { t \in [1..n -> UNION { BusinessRows(i) : i \in 1..n }] :
                \A i \in 1..n : t[i] \in BusinessRows(i) } : n \in 0..MaxBusinesses }

Appt(status, price, service, customer) ==
    [status |-> status, final_price |-> price, service_name |-> service, customer_id |-> customer]

\* What the appointments of one business inside the queried range may be.
ApptMenu ==
    { <<>>,
      << Appt("completed", NumPrice(10), "Haircut", "c1") >>,
      << Appt("completed", NumPrice(25), "Haircut", "c1"),
         Appt("cancelled", NoPrice, NULL, "c2"),
         Appt("pending", NumPrice(7), "Shave", NULL) >> }

\* Invocation instants: 15 March 2025 in a UTC process, 10 January 2025 in a
\* process one hour east of UTC.
NowMenu == { [y |-> 2025, m |-> 2, d |-> 15, off |-> 0], [y |-> 2025, m |-> 0, d |-> 10, off |-> 1] }

RunMethods == {"GET", "POST"}

ListErrorMessage == "could not list businesses"

-----------------------------------------------------------------------------
(* The handler *)

Init ==
    /\ method = NULL
    /\ pc = "idle"
    /\ now \in NowMenu
    /\ businessesTable \in BusinessTables
    /\ appointmentsTable \in [1..Len(businessesTable) -> ApptMenu]
    /\ listing = "none"
    /\ businesses = <<>>
    /\ idx = 0
    /\ firstDayLastMonth = NewDate(1970, 0, 1)
    /\ lastDayLastMonth = NewDate(1970, 0, 1)
    /\ queries = <<>>
    /\ appointments = <<>>
    /\ reportData = NoReport
    /\ emails = <<>>
    /\ console = <<>>
    /\ response = NoResponse
    /\ summaries = <<>>
    /\ history = <<>>
    /\ swState = "parsed"
    /\ cache = {}
    /\ fetchEvents = <<>>
    /\ modal = NULL
    /\ open = FALSE
    /\ loading = FALSE
    /\ captchaToken = NULL
    /\ showForgotPassword = FALSE
    /\ activeTab = "login"
    /\ fieldsValid = FALSE
    /\ tokensIssued = 0
    /\ authCalls = <<>>

Line(level, msg, arg) == [level |-> level, msg |-> msg, arg |-> arg]

\* SuccessResponse with the number of businesses of the run in its body.
SuccessResponseWithCount ==
    [status |-> 200, headers |-> jsonHeaders,
     body |-> { <<"success", "true">>, <<"message", "Monthly reports sent successfully">>,
                <<"processed", ToString(Len(businesses))>> }]

SuccessResponse ==
    [status |-> 200, headers |-> jsonHeaders,
     body |-> { <<"success", "true">>, <<"message", "Monthly reports sent successfully">> }]

ErrorResponse(message) ==
    [status |-> 500, headers |-> jsonHeaders, body |-> { <<"error", message>> }]

\* The query of one business's appointments, as issued.
AppointmentQuery(business, first, last) ==
    [business_id |-> business.id,
     gte         |-> ToISODateString(first, now.off),
     lte         |-> ToISODateString(last, now.off),
     result      |-> "pending"]

\* Set the outcome of the last entry of a call log.
Settle(calls, outcome) == [calls EXCEPT ![Len(calls)].result = outcome]

\* The loop reaches position i of bs: the next business's query is issued
\* and awaited, or, past the end, the success response is returned.  qs is
\* the query log so far.
Iterate(bs, i, first, last, qs) ==
    /\ idx' = i
    /\ IF i <= Len(bs)
       THEN /\ queries' = Append(qs, AppointmentQuery(bs[i], first, last))
            /\ pc' = "querying"
            /\ response' = response
       ELSE /\ queries' = qs
            /\ pc' = "done"
            /\ response' = SuccessResponse

\* Preflight without the early return: an OPTIONS request is served like any other.
PreflightFallsThrough ==
    /\ pc = "idle"
    /\ method' = "OPTIONS"
    /\ pc' = "listing"
    /\ listing' = "pending"
    /\ UNCHANGED <<now, businessesTable, appointmentsTable, swVars, authVars, history, summaries, businesses, idx,
                   firstDayLastMonth, lastDayLastMonth, queries, appointments,
                   reportData, emails, console, response>>

\* if (req.method === "OPTIONS") return new Response(null, { headers: corsHeaders })
Preflight ==
    /\ pc = "idle"
    /\ method' = "OPTIONS"
    /\ pc' = "done"
    /\ response' = [status |-> 200, headers |-> corsHeaders, body |-> {}]
    /\ UNCHANGED <<now, businessesTable, appointmentsTable, swVars, authVars, history, summaries, listing, businesses, idx,
                   firstDayLastMonth, lastDayLastMonth, queries, appointments,
                   reportData, emails, console>>

\* Any other request: the listing of the active businesses is issued and awaited.
StartRun ==
    /\ pc = "idle"
    /\ \E m \in RunMethods : method' = m
    /\ pc' = "listing"
    /\ listing' = "pending"
    /\ UNCHANGED <<now, businessesTable, appointmentsTable, swVars, authVars, history, summaries, businesses, idx,
                   firstDayLastMonth, lastDayLastMonth, queries, appointments,
                   reportData, emails, console, response>>

\* The outer catch: log and answer 500.
FailRun(outcome, message) ==
    /\ listing' = outcome
    /\ console' = Append(console, Line("error", "Error in send-monthly-report function", 0))
    /\ response' = ErrorResponse(message)
    /\ pc' = "done"
    /\ UNCHANGED <<method, now, businessesTable, appointmentsTable, swVars, authVars, history, summaries, businesses, idx,
                   firstDayLastMonth, lastDayLastMonth, queries, appointments,
                   reportData, emails>>

\* ListError without the throw: businesses is null and the loop runs over [].
ListErrorIgnored ==
    /\ pc = "listing"
    /\ listing' = "error"
    /\ businesses' = <<>>
    /\ console' = Append(console, Line("log", "Processing monthly reports", 0))
    /\ firstDayLastMonth' = FirstDayLastMonth(now)
    /\ lastDayLastMonth' = LastDayLastMonth(now)
    /\ Iterate(<<>>, 1, FirstDayLastMonth(now), LastDayLastMonth(now), queries)
    /\ UNCHANGED <<method, now, businessesTable, appointmentsTable, swVars, authVars, history, summaries, appointments,
                   reportData, emails>>

\* The listing answers { data: null, error }: if (businessError) throw businessError
ListError ==
    /\ pc = "listing"
    /\ FailRun("error", ListErrorMessage)

\* The listing itself throws.
ListThrow ==
    /\ pc = "listing"
    /\ FailRun("throw", ListErrorMessage)

\* The listing answers the active rows: log, compute the month, enter the loop.
ListOk ==
    /\ pc = "listing"
    /\ LET bs == SelectSeq(businessesTable, LAMBDA b : b.is_active)
           first == FirstDayLastMonth(now)
           last == LastDayLastMonth(now)
       IN  /\ listing' = "ok"
           /\ businesses' = bs
           /\ console' = Append(console, Line("log", "Processing monthly reports", Len(bs)))
           /\ firstDayLastMonth' = first
           /\ lastDayLastMonth' = last
           /\ Iterate(bs, 1, first, last, queries)
    /\ UNCHANGED <<method, now, businessesTable, appointmentsTable, swVars, authVars, history, summaries, appointments,
                   reportData, emails>>

\* QueryError with break in the place of continue.
QueryErrorBreaks ==
    /\ pc = "querying"
    /\ appointments' = <<>>
    /\ reportData' = NoReport
    /\ console' = Append(console,
                    Line("error", "Error fetching appointments for business", businesses[idx].id))
    /\ Iterate(businesses, Len(businesses) + 1, firstDayLastMonth, lastDayLastMonth,
               Settle(queries, "error"))
    /\ UNCHANGED <<method, now, businessesTable, appointmentsTable, swVars, authVars, history, summaries, listing, businesses,
                   firstDayLastMonth, lastDayLastMonth, emails>>

\* The appointment query answers { data: null, error }: log and continue.
QueryError ==
    /\ pc = "querying"
    /\ appointments' = <<>>
    /\ reportData' = NoReport
    /\ console' = Append(console,
                    Line("error", "Error fetching appointments for business", businesses[idx].id))
    /\ Iterate(businesses, idx + 1, firstDayLastMonth, lastDayLastMonth, Settle(queries, "error"))
    /\ UNCHANGED <<method, now, businessesTable, appointmentsTable, swVars, authVars, history, summaries, listing, businesses,
                   firstDayLastMonth, lastDayLastMonth, emails>>

\* The inner catch: log, and the loop goes on.
CatchInLoop(qs) ==
    /\ console' = Append(console, Line("error", "Error processing business", businesses[idx].id))
    /\ Iterate(businesses, idx + 1, firstDayLastMonth, lastDayLastMonth, qs)

\* QueryThrow without any try around it: the exception leaves the handler
\* and no response is produced.
QueryThrowEscapes ==
    /\ pc = "querying"
    /\ appointments' = <<>>
    /\ reportData' = NoReport
    /\ queries' = Settle(queries, "throw")
    /\ pc' = "crashed"
    /\ UNCHANGED <<method, now, businessesTable, appointmentsTable, swVars, authVars, history, summaries, listing, businesses,
                   idx, firstDayLastMonth, lastDayLastMonth, emails, console, response>>

\* The appointment query throws.
QueryThrow ==
    /\ pc = "querying"
    /\ appointments' = <<>>
    /\ reportData' = NoReport
    /\ CatchInLoop(Settle(queries, "throw"))
    /\ UNCHANGED <<method, now, businessesTable, appointmentsTable, swVars, authVars, history, summaries, listing, businesses,
                   firstDayLastMonth, lastDayLastMonth, emails>>

\* ShouldSend with || in the place of &&.
ShouldSendEither(data) == data.totalAppointments > 0 \/ Truthy(data.ownerEmail)

\* ShouldSend with a sent-marker: no report is sent to a business that an
\* earlier run has already sent one to.
ShouldSendUnlessSent(data) ==
    /\ data.totalAppointments > 0
    /\ Truthy(data.ownerEmail)
    /\ \A r \in 1..Len(history) :
          \A k \in 1..Len(history[r].emails) : history[r].emails[k].businessId # data.businessId

\* if (totalAppointments > 0 && reportData.ownerEmail)
ShouldSend(data) == data.totalAppointments > 0 /\ Truthy(data.ownerEmail)

\* QueryOk with the await before sendMonthlyReport(...) left out: the email call
\* is issued and the loop goes on at once.
QueryOkNoAwait ==
    /\ pc = "querying"
    /\ LET appts == appointmentsTable[businesses[idx].id]
           data == BuildReportData(businesses[idx], appts)
       IN  /\ appointments' = appts
           /\ reportData' = data
           /\ summaries' = Append(summaries, [business |-> businesses[idx], appointments |-> appts,
                                              data |-> data])
           /\ emails' = IF ShouldSend(data)
                        THEN Append(emails, EmailCall(data, firstDayLastMonth))
                        ELSE emails
           /\ Iterate(businesses, idx + 1, firstDayLastMonth, lastDayLastMonth,
                      Settle(queries, "ok"))
    /\ UNCHANGED <<method, now, businessesTable, appointmentsTable, swVars, authVars, history, listing, businesses,
                   firstDayLastMonth, lastDayLastMonth, console>>

\* The appointment query answers its rows: the metrics are computed and the
\* report is sent (the email call is issued and awaited) or skipped.
QueryOk ==
    /\ pc = "querying"
    /\ LET appts == appointmentsTable[businesses[idx].id]
           data == BuildReportData(businesses[idx], appts)
       IN  /\ appointments' = appts
           /\ reportData' = data
           /\ summaries' = Append(summaries, [business |-> businesses[idx], appointments |-> appts,
                                              data |-> data])
           /\ IF ShouldSend(data)
              THEN /\ emails' = Append(emails, EmailCall(data, firstDayLastMonth))
                   /\ queries' = Settle(queries, "ok")
                   /\ pc' = "sending"
                   /\ UNCHANGED <<idx, response>>
              ELSE /\ emails' = emails
                   /\ Iterate(businesses, idx + 1, firstDayLastMonth, lastDayLastMonth,
                              Settle(queries, "ok"))
    /\ UNCHANGED <<method, now, businessesTable, appointmentsTable, swVars, authVars, history, listing, businesses,
                   firstDayLastMonth, lastDayLastMonth, console>>

\* After await sendMonthlyReport(...) returned: log the sending, next business.
AfterSend(outcome) ==
    /\ emails' = Settle(emails, outcome)
    /\ console' = Append(console, Line("log", "Sent monthly report", reportData.businessId))
    /\ Iterate(businesses, idx + 1, firstDayLastMonth, lastDayLastMonth, queries)

\* SendOk followed by a write: the rows that were reported are removed from the table.
SendOkArchives ==
    /\ pc = "sending"
    /\ AfterSend("ok")
    /\ appointmentsTable' = [appointmentsTable EXCEPT ![businesses[idx].id] = <<>>]
    /\ UNCHANGED <<method, now, businessesTable, swVars, authVars, history, summaries, listing, businesses,
                   firstDayLastMonth, lastDayLastMonth, appointments, reportData>>

\* resend.emails.send resolves with { data, error: null }.
SendOk ==
    /\ pc = "sending"
    /\ AfterSend("ok")
    /\ UNCHANGED <<method, now, businessesTable, appointmentsTable, swVars, authVars, history, summaries, listing, businesses,
                   firstDayLastMonth, lastDayLastMonth, appointments, reportData>>

\* resend.emails.send resolves with { data: null, error }: the result is
\* not looked at, so the code goes on as after a delivery.
SendError ==
    /\ pc = "sending"
    /\ AfterSend("error")
    /\ UNCHANGED <<method, now, businessesTable, appointmentsTable, swVars, authVars, history, summaries, listing, businesses,
                   firstDayLastMonth, lastDayLastMonth, appointments, reportData>>

\* SendThrow without the inner try: the exception reaches the outer catch.
SendThrowEscapes ==
    /\ pc = "sending"
    /\ emails' = Settle(emails, "throw")
    /\ console' = Append(console, Line("error", "Error in send-monthly-report function", 0))
    /\ response' = ErrorResponse("send failed")
    /\ pc' = "done"
    /\ UNCHANGED <<method, now, businessesTable, appointmentsTable, swVars, authVars, history, summaries, listing, businesses, idx,
                   firstDayLastMonth, lastDayLastMonth, queries, appointments, reportData>>

\* resend.emails.send throws.
SendThrow ==
    /\ pc = "sending"
    /\ emails' = Settle(emails, "throw")
    /\ CatchInLoop(queries)
    /\ UNCHANGED <<method, now, businessesTable, appointmentsTable, swVars, authVars, history, summaries, listing, businesses,
                   firstDayLastMonth, lastDayLastMonth, appointments, reportData>>

Next ==
    \/ Preflight
    \/ StartRun
    \/ ListOk
    \/ ListError
    \/ ListThrow
    \/ QueryOk
    \/ QueryError
    \/ QueryThrow
    \/ SendOk
    \/ SendError
    \/ SendThrow

Spec == Init /\ [][Next]_vars

-----------------------------------------------------------------------------
(* The reporting window over many invocation instants: one stored business *)
(* that gets a report, the handler as above.                               *)

WindowYears == {2024, 2025}

WindowOffsets == {-8, 0, 1}

\* Invocation instants: the first, the 15th and the last day of every month
\* of the years, at every offset.
WindowNows ==
    { [y |-> y, m |-> m, d |-> d, off |-> off] :
        y \in WindowYears, m \in 0..11, d \in {1, 15, 28, 29, 30, 31}, off \in WindowOffsets }

InitWindow ==
    /\ method = NULL
    /\ pc = "idle"
    /\ now \in { n \in WindowNows : n.d <= DaysInMonth(n.y, n.m) }
    /\ businessesTable =
          << [id |-> 1, name |-> BusinessName(1), email |-> OwnerEmail(1),
              currency |-> BusinessCurrency(1), is_active |-> TRUE] >>
    /\ appointmentsTable = << << Appt("completed", NumPrice(10), "Haircut", "c1") >> >>
    /\ listing = "none"
    /\ businesses = <<>>
    /\ idx = 0
    /\ firstDayLastMonth = NewDate(1970, 0, 1)
    /\ lastDayLastMonth = NewDate(1970, 0, 1)
    /\ queries = <<>>
    /\ appointments = <<>>
    /\ reportData = NoReport
    /\ emails = <<>>
    /\ console = <<>>
    /\ response = NoResponse
    /\ summaries = <<>>
    /\ history = <<>>
    /\ swState = "parsed"
    /\ cache = {}
    /\ fetchEvents = <<>>
    /\ modal = NULL
    /\ open = FALSE
    /\ loading = FALSE
    /\ captchaToken = NULL
    /\ showForgotPassword = FALSE
    /\ activeTab = "login"
    /\ fieldsValid = FALSE
    /\ tokensIssued = 0
    /\ authCalls = <<>>

SpecWindow == InitWindow /\ [][Next]_vars

-----------------------------------------------------------------------------
(* The metrics over many appointment lists: the handler stands at the      *)
(* appointment query of the only listed business, which has no email, and  *)
(* the query answers.                                                      *)

ServiceNames == {"A", "B", "C", "D", "E", "F"}

\* The sequences over S of length at most n.
SeqsUpTo(S, n) == UNION { [1..k -> S] : k \in 0..n }

ServiceRow(name) == Appt("completed", NumPrice(10), name, "c1")

\* Every service once, in any order.
ServiceOrders ==
    { p \in [1..Cardinality(ServiceNames) -> ServiceNames] :
        \A i, j \in DOMAIN p : i # j => p[i] # p[j] }

\* A list with the counts A: 3, B: 5, C: 5, D: 1, where A is met first and B before C.
RankedExample ==
    [i \in 1..14 |->
        ServiceRow(<< "A", "B", "C", "D", "B", "C", "A", "B", "C", "B", "C", "A", "C", "B" >>[i])]

\* Lists that differ in the services of their rows, some rows with none:
\* the short lists over all services, the lists that open with one row of
\* each service and go on with a few more rows, and the example.
RankedInputs ==
    LET rows == { ServiceRow(n) : n \in ServiceNames \cup {NULL} }
    IN  SeqsUpTo(rows, MaxRankedAppts)
        \cup { [i \in 1..Len(p) |-> ServiceRow(p[i])] \o extra :
                 p \in ServiceOrders, extra \in SeqsUpTo(rows, MaxExtraAppts) }
        \cup { RankedExample }

PriceValues ==
    { NoPrice, NumPrice(0), NumPrice(10), StrPrice(<<"7">>), StrPrice(<<"a", "b", "c">>) }

\* Lists that differ in the status and the price of their rows: completed
\* rows of every price, a cancelled and a pending row with a price.
PricedInputs ==
    SeqsUpTo({ Appt("completed", p, "A", "c1") : p \in PriceValues }
                 \cup { Appt("cancelled", NumPrice(999), "A", "c1"),
                        Appt("pending", NumPrice(10), "A", "c1") },
             MaxPricedAppts)

\* Lists that differ in the customer and the status of their rows.
CustomerInputs ==
    SeqsUpTo({ Appt(st, NumPrice(10), "A", c) :
                 st \in {"completed", "cancelled"}, c \in {NULL, "c1", "c2"} },
             MaxCustomerAppts)

MetricsBusiness ==
    [id |-> 1, name |-> BusinessName(1), email |-> NULL,
     currency |-> BusinessCurrency(1), is_active |-> TRUE]

MetricsNow == [y |-> 2025, m |-> 2, d |-> 15, off |-> 0]

InitMetrics ==
    /\ method = "POST"
    /\ pc = "querying"
    /\ now = MetricsNow
    /\ businessesTable = << MetricsBusiness >>
    /\ \E appts \in RankedInputs \cup PricedInputs \cup CustomerInputs :
          appointmentsTable = << appts >>
    /\ listing = "ok"
    /\ businesses = << MetricsBusiness >>
    /\ idx = 1
    /\ firstDayLastMonth = FirstDayLastMonth(MetricsNow)
    /\ lastDayLastMonth = LastDayLastMonth(MetricsNow)
    /\ queries = << AppointmentQuery(MetricsBusiness, FirstDayLastMonth(MetricsNow),
                                     LastDayLastMonth(MetricsNow)) >>
    /\ appointments = <<>>
    /\ reportData = NoReport
    /\ emails = <<>>
    /\ console = << Line("log", "Processing monthly reports", 1) >>
    /\ response = NoResponse
    /\ summaries = <<>>
    /\ history = <<>>
    /\ swState = "parsed"
    /\ cache = {}
    /\ fetchEvents = <<>>
    /\ modal = NULL
    /\ open = FALSE
    /\ loading = FALSE
    /\ captchaToken = NULL
    /\ showForgotPassword = FALSE
    /\ activeTab = "login"
    /\ fieldsValid = FALSE
    /\ tokensIssued = 0
    /\ authCalls = <<>>

SpecMetrics == InitMetrics /\ [][QueryOk]_vars

-----------------------------------------------------------------------------
(* sendMonthlyReport called on its own, over many report data *)

RenderInputs ==
    { [NoReport EXCEPT !.businessId = 1, !.businessName = BusinessName(1),
                       !.ownerEmail = OwnerEmail(1), !.currency = "NGN",
                       !.totalAppointments = t, !.completedAppointments = c,
                       !.totalRevenue = r] :
        t \in 0..MaxTotal, c \in 0..MaxTotal, r \in {0, 125} }

InitRender ==
    /\ method = NULL
    /\ pc = "render"
    /\ now = MetricsNow
    /\ businessesTable = <<>>
    /\ appointmentsTable = <<>>
    /\ listing = "none"
    /\ businesses = <<>>
    /\ idx = 0
    /\ firstDayLastMonth = FirstDayLastMonth(MetricsNow)
    /\ lastDayLastMonth = LastDayLastMonth(MetricsNow)
    /\ queries = <<>>
    /\ appointments = <<>>
    /\ reportData \in { data \in RenderInputs :
                          data.completedAppointments <= data.totalAppointments }
    /\ emails = <<>>
    /\ console = <<>>
    /\ response = NoResponse
    /\ summaries = <<>>
    /\ history = <<>>
    /\ swState = "parsed"
    /\ cache = {}
    /\ fetchEvents = <<>>
    /\ modal = NULL
    /\ open = FALSE
    /\ loading = FALSE
    /\ captchaToken = NULL
    /\ showForgotPassword = FALSE
    /\ activeTab = "login"
    /\ fieldsValid = FALSE
    /\ tokensIssued = 0
    /\ authCalls = <<>>

\* sendMonthlyReport(reportData, firstDayLastMonth, lastDayLastMonth) up to
\* its await: the template is rendered and the email call issued.
SendMonthlyReport ==
    /\ pc = "render"
    /\ emails' = Append(emails, EmailCall(reportData, firstDayLastMonth))
    /\ pc' = "sending"
    /\ UNCHANGED <<method, now, businessesTable, appointmentsTable, swVars, authVars, history, summaries, listing, businesses, idx,
                   firstDayLastMonth, lastDayLastMonth, queries, appointments, reportData,
                   console, response>>

SpecRender == InitRender /\ [][SendMonthlyReport]_vars

-----------------------------------------------------------------------------
(* Properties of a run *)

\* Positions in the query log of the queries for business id.
QueriesFor(id) == { k \in 1..Len(queries) : queries[k].business_id = id }

\* Positions in the email log of the dispatches of business id's report.
EmailsFor(id) == { k \in 1..Len(emails) : emails[k].businessId = id }

\* Outcome of the appointment query of business id: "none" when none was issued.
QueryResultOf(id) ==
    IF QueriesFor(id) = {} THEN "none" ELSE queries[CHOOSE k \in QueriesFor(id) : TRUE].result

\* An error line was logged for business id.
ErrorLoggedFor(id) ==
    \E k \in 1..Len(console) : console[k].level = "error" /\ console[k].arg = id

RetrievalFailed(id) == QueryResultOf(id) \in {"error", "throw"}

RunCompleted == pc = "done" /\ listing = "ok"

\* C1 as stated: in a completed run, when the retrieval of the business at
\* position x failed, every business y listed after x was queried, and a
\* dispatch was attempted for y whenever y has at least one stored
\* appointment in the range and a non-empty email.
C1_AsStated ==
    RunCompleted =>
        \A x \in 1..Len(businesses) : \A y \in (x + 1)..Len(businesses) :
            RetrievalFailed(businesses[x].id) =>
                /\ QueriesFor(businesses[y].id) # {}
                /\ (Len(appointmentsTable[businesses[y].id]) >= 1 /\ Truthy(businesses[y].email))
                      => EmailsFor(businesses[y].id) # {}

\* C1 (amended): in a completed run, when the retrieval of the business at
\* position x failed, every business y listed after x was queried, and a
\* dispatch was attempted for y whenever y's own retrieval succeeded with at
\* least one appointment and y has a non-empty email.
C1_FailureIsolation ==
    RunCompleted =>
        \A x \in 1..Len(businesses) : \A y \in (x + 1)..Len(businesses) :
            RetrievalFailed(businesses[x].id) =>
                /\ QueriesFor(businesses[y].id) # {}
                /\ (/\ QueryResultOf(businesses[y].id) = "ok"
                    /\ Len(appointmentsTable[businesses[y].id]) >= 1
                    /\ Truthy(businesses[y].email))
                      => EmailsFor(businesses[y].id) # {}

\* A completed run in which a retrieval failed and a later business got its report.
C1_Witness ==
    /\ RunCompleted
    /\ \E x \in 1..Len(businesses) : \E y \in (x + 1)..Len(businesses) :
          /\ RetrievalFailed(businesses[x].id)
          /\ QueryResultOf(businesses[y].id) = "ok"
          /\ EmailsFor(businesses[y].id) # {}

\* C2: when the listing of the active businesses failed, the response is a
\* 500 whose body has an error field, no appointment query was issued and no
\* email was dispatched.
C2_ListFailureFailsRun ==
    listing \in {"error", "throw"} =>
        /\ response.status = 500
        /\ \E f \in response.body : f[1] = "error"
        /\ queries = <<>>
        /\ emails = <<>>

\* The listing failed although an active business with appointments and an email is stored.
C2_Witness ==
    /\ listing \in {"error", "throw"}
    /\ response.status = 500
    /\ \E i \in 1..Len(businessesTable) :
          /\ businessesTable[i].is_active
          /\ Truthy(businessesTable[i].email)
          /\ appointmentsTable[i] # <<>>

\* C3 as stated: a dispatch that failed, by a returned error or by an
\* exception, has an error line logged for its business.
C3_DispatchFailureLogged ==
    \A k \in 1..Len(emails) :
        emails[k].result \in {"error", "throw"} => ErrorLoggedFor(emails[k].businessId)

\* C4: once the listing succeeded the response is never a 500, and the
\* completed run answers 200 with success = true.
C4_TenantFailuresNeverFailRun ==
    listing = "ok" =>
        /\ response.status # 500
        /\ pc = "done" => (response.status = 200 /\ <<"success", "true">> \in response.body)

\* A completed run answering 200 in which a retrieval failed and a dispatch threw.
C4_Witness ==
    /\ RunCompleted
    /\ response.status = 200
    /\ \E k \in 1..Len(queries) : queries[k].result \in {"error", "throw"}
    /\ \E k \in 1..Len(emails) : emails[k].result = "throw"

C6_ExactlyOneDispatch ==
    /\ \A i \in 1..Len(businessesTable) : Cardinality(EmailsFor(i)) <= 1
    /\ RunCompleted =>
          \A i \in 1..Len(businessesTable) :
              (/\ businessesTable[i].is_active
               /\ Truthy(businessesTable[i].email)
               /\ QueryResultOf(i) = "ok"
               /\ appointmentsTable[i] # <<>>)
                  => /\ Cardinality(EmailsFor(i)) = 1
                     /\ \A k \in EmailsFor(i) : emails[k].to = << businessesTable[i].email >>

\* A completed run with the reports of two businesses dispatched.
C6_Witness ==
    /\ RunCompleted
    /\ Len(emails) = 2
    /\ emails[1].businessId # emails[2].businessId

-----------------------------------------------------------------------------
(* Properties of the reporting window *)

\* The first day of the calendar month before n's, in n's local calendar.
PreviousMonthFirst(n) ==
    IF n.m = 0 THEN [y |-> n.y - 1, m |-> 11, d |-> 1] ELSE [y |-> n.y, m |-> n.m - 1, d |-> 1]

\* The last day of that month.
PreviousMonthLast(n) ==
    LET first == PreviousMonthFirst(n)
    IN  [first EXCEPT !.d = DaysInMonth(first.y, first.m)]

\* C7 as stated: the bounds of every appointment query are the first and
\* the last day of the calendar month before the invocation date, in the
\* process's local calendar, written YYYY-MM-DD.
C7_WindowIsPreviousMonth ==
    \A k \in 1..Len(queries) :
        /\ queries[k].gte = FormatYMD(PreviousMonthFirst(now))
        /\ queries[k].lte = FormatYMD(PreviousMonthLast(now))

-----------------------------------------------------------------------------
(* Properties of the metrics *)

\* The text is a numeral.
IsNumericText(text) == text # <<>> /\ \A i \in 1..Len(text) : IsDigit(text[i])

\* What a price counts for: its number, zero when it is missing or not numeric.
AmountOrZero(p) ==
    IF p.t = "num" THEN p.v
    ELSE IF p.t = "str" /\ IsNumericText(p.s) THEN DigitPrefixVal(p.s, 0)
    ELSE 0

RECURSIVE CompletedAmounts(_)
\* The sum of what the prices of the completed rows count for.
CompletedAmounts(appts) ==
    IF appts = <<>> THEN 0
    ELSE (IF Head(appts).status = "completed" THEN AmountOrZero(Head(appts).final_price) ELSE 0)
         + CompletedAmounts(Tail(appts))

MetricsComputed == pc = "done" /\ listing = "ok" /\ Len(queries) = 1 /\ queries[1].result = "ok"

\* C8 as stated: the revenue of the report is the sum of the amounts of the
\* completed rows, a missing or non-numeric amount counting zero and every
\* other completed row its amount; rows of another status count nothing.
C8_CompletedRevenue ==
    MetricsComputed => reportData.totalRevenue = CompletedAmounts(appointments)

\* The services the rows name.
NamedServices(appts) ==
    { appts[i].service_name : i \in { j \in 1..Len(appts) : Truthy(appts[j].service_name) } }

\* The rows that reference service n.
RowsOf(appts, n) == { i \in 1..Len(appts) : appts[i].service_name = n }

FirstRowOf(appts, n) == CHOOSE i \in RowsOf(appts, n) : \A j \in RowsOf(appts, n) : i <= j

\* Service a ranks before service b: referenced more often, or as often and met first.
RanksBefore(appts, a, b) ==
    \/ Cardinality(RowsOf(appts, a)) > Cardinality(RowsOf(appts, b))
    \/ /\ Cardinality(RowsOf(appts, a)) = Cardinality(RowsOf(appts, b))
       /\ FirstRowOf(appts, a) < FirstRowOf(appts, b)

\* C9: the ranking has min(5, number of services) entries, each a service
\* the rows name with the number of rows that reference it, every entry
\* ranking before the entries after it (more rows, or as many and met
\* first) and before every service that was left out.
C9_TopServices ==
    MetricsComputed =>
        LET top == reportData.topServices
            named == NamedServices(appointments)
        IN  /\ Len(top) = Min(5, Cardinality(named))
            /\ \A i \in 1..Len(top) :
                  /\ top[i].name \in named
                  /\ top[i].count = Cardinality(RowsOf(appointments, top[i].name))
            /\ \A i, j \in 1..Len(top) :
                  i < j => RanksBefore(appointments, top[i].name, top[j].name)
            /\ \A n \in named :
                  (\A i \in 1..Len(top) : top[i].name # n) =>
                      \A i \in 1..Len(top) : RanksBefore(appointments, top[i].name, n)

\* Six services, of which five are kept: one referenced twice, then four
\* referenced once each in the order they were met.
C9_Witness ==
    /\ MetricsComputed
    /\ Cardinality(NamedServices(appointments)) = 6
    /\ Len(reportData.topServices) = 5
    /\ reportData.topServices[1].count = 2
    /\ reportData.topServices[2].count = 1
    /\ reportData.topServices[1].name = appointments[6].service_name

-----------------------------------------------------------------------------
(* Properties of the rendered report *)

\* The number of tenths a decimal with one fraction digit denotes.
TenthsOf(text) ==
    DigitPrefixVal(SubSeq(text, 1, Len(text) - 2), 0) * 10 + DigitVal(text[Len(text)])

\* The text is digits, a point and one digit.
IsOneDecimal(text) ==
    /\ Len(text) >= 3
    /\ text[Len(text) - 1] = "."
    /\ \A i \in (1..Len(text)) \ {Len(text) - 1} : IsDigit(text[i])

\* C10: the completion rate of a rendered report is, when the total is
\* positive, a decimal with one fraction digit that is nearest to
\* completed / total x 100 (no further than 0.05 from it), and is 0 when the
\* total is zero.
C10_CompletionRate ==
    \A k \in 1..Len(emails) :
        LET t == emails[k].html.totalAppointments
            c == emails[k].html.completedAppointments
            rate == emails[k].html.completionRate
        IN  IF t > 0
            THEN /\ IsOneDecimal(rate)
                 /\ 2 * (TenthsOf(rate) * t - 1000 * c) <= t
                 /\ 2 * (1000 * c - TenthsOf(rate) * t) <= t
            ELSE rate = <<"0">>

\* A report of 3 completed appointments out of 4 rendered with the rate 75.0.
C10_Witness ==
    \E k \in 1..Len(emails) :
        /\ emails[k].html.totalAppointments = 4
        /\ emails[k].html.completedAppointments = 3
        /\ emails[k].html.completionRate = <<"7", "5", ".", "0">>

-----------------------------------------------------------------------------
(* C12: sequential processing of the businesses *)

PendingQueries == { k \in 1..Len(queries) : queries[k].result = "pending" }
PendingEmails == { k \in 1..Len(emails) : emails[k].result = "pending" }
SettledOk == { k \in 1..Len(queries) : queries[k].result = "ok" }

\* C12: the tenants are processed one after the other in the order of the
\* listing: the k-th query is for the k-th listed tenant, at most one
\* collaborator call is outstanding at any time and it is the latest one issued,
\* so when the query of a tenant is issued the query of every earlier tenant
\* has ended, its summary has been built and its dispatch, if any, has ended.
C12_Sequential ==
    /\ Cardinality(PendingQueries) + Cardinality(PendingEmails) <= 1
    /\ \A k \in 1..Len(queries) : queries[k].business_id = businesses[k].id
    /\ \A k \in PendingQueries : k = Len(queries)
    /\ \A k \in PendingEmails :
          /\ k = Len(emails)
          /\ queries[Len(queries)].result = "ok"
          /\ emails[k].businessId = queries[Len(queries)].business_id
    /\ Len(summaries) = Cardinality(SettledOk)
    /\ \A k \in 1..Len(emails) :
          \E q \in SettledOk : queries[q].business_id = emails[k].businessId

\* The query of the second tenant is outstanding after a dispatch to the first.
C12_Witness ==
    /\ Len(queries) = 2
    /\ queries[2].result = "pending"
    /\ Len(emails) = 1
    /\ emails[1].businessId = queries[1].business_id
    /\ emails[1].result # "pending"

-----------------------------------------------------------------------------
(* C14: the preflight *)

\* C14: a request with method OPTIONS is answered by a response that carries
\* the permissive cross-origin headers and no body, and nothing else happens:
\* no listing, no appointment query, no summary, no email, no log line.
C14_PreflightNoOp ==
    method = "OPTIONS" =>
        /\ pc = "done"
        /\ response.status = 200
        /\ response.headers = corsHeaders
        /\ <<"Access-Control-Allow-Origin", "*">> \in response.headers
        /\ response.body = {}
        /\ listing = "none"
        /\ businesses = <<>>
        /\ queries = <<>>
        /\ summaries = <<>>
        /\ emails = <<>>
        /\ console = <<>>

\* An OPTIONS request met stored businesses that a run would have reported on.
C14_Witness ==
    /\ method = "OPTIONS"
    /\ response # NoResponse
    /\ \E i \in 1..Len(businessesTable) :
          /\ businessesTable[i].is_active
          /\ Truthy(businessesTable[i].email)
          /\ appointmentsTable[i] # <<>>

-----------------------------------------------------------------------------
(* C15: the run only reads the stored data *)

\* C15: no step of the handler changes the stored rows of the businesses or of
\* the appointments: every step leaves both tables exactly as they were, and
\* what a step adds to the world outside the handler is an email call, a log
\* line or the response.
C15_StoredDataUnchanged ==
    [][ /\ businessesTable' = businessesTable
        /\ appointmentsTable' = appointmentsTable ]_vars

\* A run that listed, queried two businesses, sent at least one email and logged has ended.
C15_Witness ==
    /\ RunCompleted
    /\ Len(queries) >= 2
    /\ \E k \in 1..Len(emails) : emails[k].result = "ok"
    /\ console # <<>>

-----------------------------------------------------------------------------
(* C13: the distinct customers *)

\* The customer references of the rows, null left out.
CustomerRefs(appts) == { appts[i].customer_id : i \in 1..Len(appts) } \ { NULL }

\* C13: the distinct-customer count of a summary is the number of different
\* non-null customer references among all the rows retrieved, of any status;
\* rows with a null reference add nothing.
C13_DistinctCustomers ==
    MetricsComputed => reportData.newCustomers = Cardinality(CustomerRefs(appointments))

\* Two customers counted over three rows: one only on a cancelled row, one
\* on a completed row, and a row without customer.
C13_Witness ==
    /\ MetricsComputed
    /\ Len(appointments) = 3
    /\ \E i, j, k \in 1..3 :
          /\ appointments[i].customer_id = NULL
          /\ appointments[j].customer_id = "c1" /\ appointments[j].status = "completed"
          /\ appointments[k].customer_id = "c2" /\ appointments[k].status = "cancelled"
    /\ reportData.newCustomers = 2

-----------------------------------------------------------------------------
(* C16: the average revenue of the rendered report *)

\* The number of hundredths a decimal with two fraction digits denotes.
HundredthsOf(text) ==
    DigitPrefixVal(SubSeq(text, 1, Len(text) - 3), 0) * 100
        + DigitVal(text[Len(text) - 1]) * 10 + DigitVal(text[Len(text)])

\* The text is digits, a point and two digits.
IsTwoDecimal(text) ==
    /\ Len(text) >= 4
    /\ text[Len(text) - 2] = "."
    /\ \A i \in (1..Len(text)) \ {Len(text) - 2} : IsDigit(text[i])

\* C16 as stated: the average revenue a report renders is the quotient
\* completed revenue / completed count itself when the completed count is
\* positive, and 0 when it is zero.
C16_AsStated ==
    \A k \in 1..Len(emails) :
        LET c == emails[k].html.completedAppointments
            r == emails[k].html.totalRevenue
            avg == emails[k].html.averageRevenue
        IN  IF c > 0
            THEN /\ IsTwoDecimal(avg)
                 /\ HundredthsOf(avg) * c = 100 * r
            ELSE avg = <<"0">>

\* C16, amended: the average revenue a report renders is, when the completed
\* count is positive, the decimal with two fraction digits nearest to
\* completed revenue / completed count (no further than 0.005 from it), and
\* is 0 when the completed count is zero.
C16_AverageRevenue ==
    \A k \in 1..Len(emails) :
        LET c == emails[k].html.completedAppointments
            r == emails[k].html.totalRevenue
            avg == emails[k].html.averageRevenue
        IN  IF c > 0
            THEN /\ IsTwoDecimal(avg)
                 /\ 2 * (HundredthsOf(avg) * c - 100 * r) <= c
                 /\ 2 * (100 * r - HundredthsOf(avg) * c) <= c
            ELSE avg = <<"0">>

\* A revenue of 125 over 3 completed appointments rendered as 41.67.
C16_Witness ==
    \E k \in 1..Len(emails) :
        /\ emails[k].html.totalRevenue = 125
        /\ emails[k].html.completedAppointments = 3
        /\ emails[k].html.averageRevenue = <<"4", "1", ".", "6", "7">>

-----------------------------------------------------------------------------
(* The handler serving one request after the other (Deno.serve(handler)),   *)
(* with what may happen to the stored data between two requests.           *)

\* What is kept of a run once it has ended.
CurrentRun ==
    [now |-> now, businessesTable |-> businessesTable,
     appointmentsTable |-> appointmentsTable, listing |-> listing, businesses |-> businesses,
     queries |-> queries, summaries |-> summaries, emails |-> emails, console |-> console,
     response |-> response]

\* The next request arrives after the response to the last one: the handler
\* starts again with fresh locals; nothing of the last run is kept by the
\* function (no module-level state is written by the handler). The instant
\* of the next run falls on the same day.
NextRequest ==
    /\ pc = "done"
    /\ Len(history) + 1 < MaxRuns
    /\ history' = Append(history, CurrentRun)
    /\ method' = NULL
    /\ pc' = "idle"
    /\ listing' = "none"
    /\ businesses' = <<>>
    /\ idx' = 0
    /\ firstDayLastMonth' = NewDate(1970, 0, 1)
    /\ lastDayLastMonth' = NewDate(1970, 0, 1)
    /\ queries' = <<>>
    /\ appointments' = <<>>
    /\ reportData' = NoReport
    /\ emails' = <<>>
    /\ console' = <<>>
    /\ response' = NoResponse
    /\ summaries' = <<>>
    /\ UNCHANGED <<now, businessesTable, appointmentsTable, swVars, authVars>>

HandlerLocals ==
    <<method, pc, now, listing, businesses, idx, firstDayLastMonth, lastDayLastMonth,
      queries, appointments, reportData, emails, console, response, summaries, history>>

\* Before the next run the account management (not part of this function)
\* deactivates a business: the listing .eq("is_active", true) no longer
\* returns it.
Deactivate ==
    /\ pc = "done"
    /\ Len(history) + 1 < MaxRuns
    /\ \E i \in 1..Len(businessesTable) :
          /\ businessesTable[i].is_active
          /\ businessesTable' = [businessesTable EXCEPT ![i].is_active = FALSE]
    /\ UNCHANGED appointmentsTable
    /\ UNCHANGED HandlerLocals
    /\ UNCHANGED <<swVars, authVars>>

Reverse(rows) == [i \in 1..Len(rows) |-> rows[Len(rows) + 1 - i]]

\* The appointment query has no .order(...): the database is free to return
\* the same rows in another order at the next run.
Reorder ==
    /\ pc = "done"
    /\ Len(history) + 1 < MaxRuns
    /\ \E i \in 1..Len(appointmentsTable) :
          /\ Reverse(appointmentsTable[i]) # appointmentsTable[i]
          /\ appointmentsTable' = [appointmentsTable EXCEPT ![i] = Reverse(appointmentsTable[i])]
    /\ UNCHANGED businessesTable
    /\ UNCHANGED HandlerLocals
    /\ UNCHANGED <<swVars, authVars>>

\* Two active businesses with an email; the first has three appointments,
\* two of them of services that tie, the second has one.
RerunBusinesses ==
    [i \in 1..2 |-> [id |-> i, name |-> BusinessName(i), email |-> OwnerEmail(i),
                     currency |-> BusinessCurrency(i), is_active |-> TRUE]]

RerunAppointments ==
    << << Appt("completed", NumPrice(25), "Haircut", "c1"),
          Appt("cancelled", NoPrice, NULL, "c2"),
          Appt("pending", NumPrice(7), "Shave", NULL) >>,
       << Appt("completed", NumPrice(10), "Haircut", "c1") >> >>

InitRerun ==
    /\ method = NULL
    /\ pc = "idle"
    /\ now = MetricsNow
    /\ businessesTable = RerunBusinesses
    /\ appointmentsTable = RerunAppointments
    /\ listing = "none"
    /\ businesses = <<>>
    /\ idx = 0
    /\ firstDayLastMonth = NewDate(1970, 0, 1)
    /\ lastDayLastMonth = NewDate(1970, 0, 1)
    /\ queries = <<>>
    /\ appointments = <<>>
    /\ reportData = NoReport
    /\ emails = <<>>
    /\ console = <<>>
    /\ response = NoResponse
    /\ summaries = <<>>
    /\ history = <<>>
    /\ swState = "parsed"
    /\ cache = {}
    /\ fetchEvents = <<>>
    /\ modal = NULL
    /\ open = FALSE
    /\ loading = FALSE
    /\ captchaToken = NULL
    /\ showForgotPassword = FALSE
    /\ activeTab = "login"
    /\ fieldsValid = FALSE
    /\ tokensIssued = 0
    /\ authCalls = <<>>

NextRerun ==
    \/ Next
    \/ NextRequest
    \/ Deactivate
    \/ Reorder

SpecRerun == InitRerun /\ [][NextRerun]_vars

\* The runs that have ended, in order.
EndedRuns == IF pc = "done" THEN Append(history, CurrentRun) ELSE history

-----------------------------------------------------------------------------
(* C11: the summary and the order in which the rows are returned *)

\* The summaries built so far, by the runs that have ended and by the current one.
BuiltSummaries ==
    { summaries[k] : k \in 1..Len(summaries) }
        \cup UNION { { history[r].summaries[k] : k \in 1..Len(history[r].summaries) } :
                      r \in 1..Len(history) }

Occurrences(rows, x) == Cardinality({ i \in 1..Len(rows) : rows[i] = x })

\* The two lists hold the same rows, in whatever order.
SameRows(a, b) ==
    /\ Len(a) = Len(b)
    /\ \A i \in 1..Len(a) : Occurrences(a, a[i]) = Occurrences(b, a[i])

\* C11 as stated: two summaries built for the same tenant from the same rows,
\* in whatever order the rows were returned, are equal in every field.
C11_SetDeterminesSummary ==
    \A s1, s2 \in BuiltSummaries :
        (s1.business = s2.business /\ SameRows(s1.appointments, s2.appointments))
            => s1.data = s2.data

-----------------------------------------------------------------------------
(* C17: the success result and the number of businesses *)

\* Positions in EndedRuns of the runs that listed the businesses and answered 200.
SuccessfulRuns ==
    { k \in 1..Len(EndedRuns) :
        EndedRuns[k].listing = "ok" /\ EndedRuns[k].response.status = 200 }

\* C17 as stated: successful runs over lists of different sizes return
\* results that differ (each reports its own count).
C17_AsStated ==
    \A j, k \in SuccessfulRuns :
        Len(EndedRuns[j].businesses) # Len(EndedRuns[k].businesses)
            => EndedRuns[j].response # EndedRuns[k].response

\* C17, amended: every successful run returns the same result, the fields
\* success and message with fixed values, whatever the number of businesses
\* it listed; that number is written to the log of the run only.
C17_FixedSuccessResult ==
    /\ \A j, k \in SuccessfulRuns : EndedRuns[j].response = EndedRuns[k].response
    /\ \A k \in SuccessfulRuns :
          /\ { f[1] : f \in EndedRuns[k].response.body } = {"success", "message"}
          /\ <<"success", "true">> \in EndedRuns[k].response.body
          /\ \E n \in 1..Len(EndedRuns[k].console) :
                EndedRuns[k].console[n] =
                    Line("log", "Processing monthly reports", Len(EndedRuns[k].businesses))

\* Two successful runs, the first over two businesses and the second over one.
C17_Witness ==
    \E j, k \in SuccessfulRuns :
        /\ j < k
        /\ Len(EndedRuns[j].businesses) = 2
        /\ Len(EndedRuns[k].businesses) = 1

-----------------------------------------------------------------------------
(* C18: no sent-marker between runs *)

\* Business i qualifies for a report in the run: it is active, has a
\* non-empty email and at least one appointment in the window, and the run
\* retrieved its appointments.
Qualifies(run, i) ==
    /\ i \in 1..Len(run.businessesTable)
    /\ run.businessesTable[i].is_active
    /\ Truthy(run.businessesTable[i].email)
    /\ run.appointmentsTable[i] # <<>>
    /\ \E q \in 1..Len(run.queries) :
          run.queries[q].business_id = i /\ run.queries[q].result = "ok"

\* Positions in the email log of the run of the calls for business i.
DispatchesTo(run, i) == { k \in 1..Len(run.emails) : run.emails[k].businessId = i }

\* The two runs met the same stored data and computed the same window.
SameData(r1, r2) ==
    /\ r1.now = r2.now
    /\ r1.businessesTable = r2.businessesTable
    /\ \A i \in 1..Len(r1.appointmentsTable) :
          SameRows(r1.appointmentsTable[i], r2.appointmentsTable[i])

\* C18: of two runs for the same window over unchanged data, each attempts
\* one dispatch to every business that qualifies in it, whatever the other
\* run sent: a business that qualifies in both gets two dispatches.
C18_NoSentMarker ==
    \A j, k \in 1..Len(EndedRuns) :
        (j < k /\ SameData(EndedRuns[j], EndedRuns[k])) =>
            \A i \in 1..Len(EndedRuns[j].businessesTable) :
                LET dj == DispatchesTo(EndedRuns[j], i)
                    dk == DispatchesTo(EndedRuns[k], i)
                IN  /\ Qualifies(EndedRuns[j], i) => Cardinality(dj) = 1
                    /\ Qualifies(EndedRuns[k], i) => Cardinality(dk) = 1
                    /\ (Qualifies(EndedRuns[j], i) /\ Qualifies(EndedRuns[k], i))
                          => /\ Cardinality(dj) + Cardinality(dk) = 2
                             /\ \A n \in dk :
                                   EndedRuns[k].emails[n].to
                                       = << EndedRuns[k].businessesTable[i].email >>

\* Two runs over the same data in which both businesses qualified: four dispatches.
C18_Witness ==
    /\ Len(EndedRuns) = 2
    /\ SameData(EndedRuns[1], EndedRuns[2])
    /\ \A i \in 1..2 : Qualifies(EndedRuns[1], i) /\ Qualifies(EndedRuns[2], i)
    /\ Len(EndedRuns[1].emails) = 2
    /\ Len(EndedRuns[2].emails) = 2

-----------------------------------------------------------------------------
(* C20: every run ends with one response *)

\* One request over two active businesses with an email, each with any of
\* the appointment lists of ApptMenu.
InitLive ==
    /\ method = NULL
    /\ pc = "idle"
    /\ now = MetricsNow
    /\ businessesTable = RerunBusinesses
    /\ appointmentsTable \in [1..Len(RerunBusinesses) -> ApptMenu]
    /\ listing = "none"
    /\ businesses = <<>>
    /\ idx = 0
    /\ firstDayLastMonth = NewDate(1970, 0, 1)
    /\ lastDayLastMonth = NewDate(1970, 0, 1)
    /\ queries = <<>>
    /\ appointments = <<>>
    /\ reportData = NoReport
    /\ emails = <<>>
    /\ console = <<>>
    /\ response = NoResponse
    /\ summaries = <<>>
    /\ history = <<>>
    /\ swState = "parsed"
    /\ cache = {}
    /\ fetchEvents = <<>>
    /\ modal = NULL
    /\ open = FALSE
    /\ loading = FALSE
    /\ captchaToken = NULL
    /\ showForgotPassword = FALSE
    /\ activeTab = "login"
    /\ fieldsValid = FALSE
    /\ tokensIssued = 0
    /\ authCalls = <<>>

\* Every collaborator call that is awaited returns, answers an error or
\* throws: a step of the handler that can be taken is taken.
SpecLive == InitLive /\ [][Next]_vars /\ WF_vars(Next)

RunAnswered == pc = "done" /\ response.status \in {200, 500}

\* C20: a request with another method than OPTIONS gets exactly one
\* response, 200 or 500: once the listing is issued the handler reaches its
\* end with such a response (provided every awaited call ends), a response
\* once produced is never replaced, the handler ends nowhere but with a
\* response, and no business is queried more than once on the way.
C20_OneResponse ==
    /\ (pc = "listing") ~> RunAnswered
    /\ [](pc \in {"idle", "listing", "querying", "sending", "done"})
    /\ [](pc = "done" <=> response # NoResponse)
    /\ []((pc = "done" /\ method \in RunMethods) => response.status \in {200, 500})
    /\ [][response # NoResponse => response' = response]_vars
    /\ [](\A i \in 1..Len(businessesTable) : Cardinality(QueriesFor(i)) <= 1)
    /\ [](Len(queries) <= Len(businesses))

\* A run over two businesses has answered 200 although the query of one
\* business and the dispatch to the other threw.
C20_Witness ==
    /\ method \in RunMethods
    /\ RunAnswered
    /\ response.status = 200
    /\ Len(queries) = 2
    /\ \E k \in 1..Len(queries) : queries[k].result = "throw"
    /\ \E k \in 1..Len(emails) : emails[k].result = "throw"

-----------------------------------------------------------------------------
(* The service worker (public/sw.js)                                        *)
(*                                                                         *)
(* The install listener fills the cache; the fetch listener answers every  *)
(* request of the pages it controls. Events are handled concurrently: a    *)
(* listener returns at once and its promise chain goes on when the cache   *)
(* or the network answers.                                                 *)

CACHE_NAME == "bizflow-v1"

urlsToCache == << "/", "/static/js/bundle.js", "/static/css/main.css", "/manifest.json" >>

\* self.location.origin, and the origin of another site.
SelfOrigin == "https://app.test"
OtherOrigin == "https://api.test"

Request(m, origin, path) == [method |-> m, origin |-> origin, path |-> path]

\* request.url
Url(request) == request.origin \o request.path

\* The requests of the pages: a path that is in urlsToCache and one that is
\* not, to either origin, with a method that reads and one that writes.
Requests ==
    { Request(m, o, p) : m \in {"GET", "POST"}, o \in {SelfOrigin, OtherOrigin},
                         p \in {"/", "/api/sync"} }

NoRequest == Request(NULL, NULL, NULL)

\* A Response: the url it is of and where the worker took it from.
ResponseOf(url, from) == [url |-> url, from |-> from]

NoAnswer == ResponseOf(NULL, NULL)

\* The install event: caches.open(CACHE_NAME) and cache.addAll(urlsToCache) are issued.
Install ==
    /\ swState = "parsed"
    /\ swState' = "installing"
    /\ UNCHANGED <<cache, fetchEvents>>
    /\ UNCHANGED HandlerLocals
    /\ UNCHANGED <<businessesTable, appointmentsTable, authVars>>

\* cache.addAll resolved: every url of urlsToCache was fetched from the
\* worker's origin and stored; waitUntil settles and the worker takes control.
InstallOk ==
    /\ swState = "installing"
    /\ cache' = cache \cup
                  { [name |-> CACHE_NAME, url |-> SelfOrigin \o urlsToCache[i],
                     response |-> ResponseOf(SelfOrigin \o urlsToCache[i], "install")] :
                      i \in 1..Len(urlsToCache) }
    /\ swState' = "activated"
    /\ UNCHANGED fetchEvents
    /\ UNCHANGED HandlerLocals
    /\ UNCHANGED <<businessesTable, appointmentsTable, authVars>>

\* cache.addAll rejected (a url could not be fetched): nothing is stored
\* and the worker is discarded.
InstallFail ==
    /\ swState = "installing"
    /\ swState' = "redundant"
    /\ UNCHANGED <<cache, fetchEvents>>
    /\ UNCHANGED HandlerLocals
    /\ UNCHANGED <<businessesTable, appointmentsTable, authVars>>

\* url.origin === self.location.origin
IsSameOrigin(request) == request.origin = SelfOrigin

\* The fetch events still to be answered are few.
CanFetch == swState = "activated" /\ Len(fetchEvents) < MaxFetchEvents

\* FetchEvent without the test of the method: only cross-origin requests
\* go straight to the network.
FetchEventAnyMethod ==
    /\ CanFetch
    /\ \E request \in Requests :
          fetchEvents' = Append(fetchEvents,
              IF ~IsSameOrigin(request)
              THEN [request |-> request, matched |-> NoRequest, fetched |-> request,
                    stage |-> "fetching", answer |-> NoAnswer]
              ELSE [request |-> request, matched |-> request, fetched |-> NoRequest,
                    stage |-> "matching", answer |-> NoAnswer])
    /\ UNCHANGED <<swState, cache>>
    /\ UNCHANGED HandlerLocals
    /\ UNCHANGED <<businessesTable, appointmentsTable, authVars>>

\* The fetch listener, up to its return: a request that is not a GET or not
\* to the worker's origin is handed to fetch, any other to caches.match.
FetchEvent ==
    /\ CanFetch
    /\ \E request \in Requests :
          fetchEvents' = Append(fetchEvents,
              IF request.method # "GET" \/ ~IsSameOrigin(request)
              THEN [request |-> request, matched |-> NoRequest, fetched |-> request,
                    stage |-> "fetching", answer |-> NoAnswer]
              ELSE [request |-> request, matched |-> request, fetched |-> NoRequest,
                    stage |-> "matching", answer |-> NoAnswer])
    /\ UNCHANGED <<swState, cache>>
    /\ UNCHANGED HandlerLocals
    /\ UNCHANGED <<businessesTable, appointmentsTable, authVars>>

\* caches.match(request): the stored response of a GET of the same url, if any.
CacheMatch(entries, request) ==
    IF request.method = "GET" /\ \E e \in entries : e.url = Url(request)
    THEN (CHOOSE e \in entries : e.url = Url(request)).response
    ELSE NoAnswer

\* caches.match resolved: if (cachedResponse) return cachedResponse; return fetch(request)
MatchResolved ==
    /\ \E k \in 1..Len(fetchEvents) :
          /\ fetchEvents[k].stage = "matching"
          /\ LET cachedResponse == CacheMatch(cache, fetchEvents[k].matched)
             IN  fetchEvents' =
                    IF cachedResponse # NoAnswer
                    THEN [fetchEvents EXCEPT ![k].stage = "answered",
                                             ![k].answer = cachedResponse]
                    ELSE [fetchEvents EXCEPT ![k].stage = "fetching",
                                             ![k].fetched = fetchEvents[k].request]
    /\ UNCHANGED <<swState, cache>>
    /\ UNCHANGED HandlerLocals
    /\ UNCHANGED <<businessesTable, appointmentsTable, authVars>>

\* FetchResolved that also puts the response of the network into the cache.
FetchResolvedCaches ==
    /\ \E k \in 1..Len(fetchEvents) :
          /\ fetchEvents[k].stage = "fetching"
          /\ fetchEvents' = [fetchEvents EXCEPT
                                ![k].stage = "answered",
                                ![k].answer = ResponseOf(Url(fetchEvents[k].fetched), "network")]
          /\ cache' = cache \cup
                        { [name |-> CACHE_NAME, url |-> Url(fetchEvents[k].fetched),
                           response |-> ResponseOf(Url(fetchEvents[k].fetched), "network")] }
    /\ UNCHANGED swState
    /\ UNCHANGED HandlerLocals
    /\ UNCHANGED <<businessesTable, appointmentsTable, authVars>>

\* fetch(request) resolved: the page gets the response of the network.
FetchResolved ==
    /\ \E k \in 1..Len(fetchEvents) :
          /\ fetchEvents[k].stage = "fetching"
          /\ fetchEvents' = [fetchEvents EXCEPT
                                ![k].stage = "answered",
                                ![k].answer = ResponseOf(Url(fetchEvents[k].fetched), "network")]
    /\ UNCHANGED <<swState, cache>>
    /\ UNCHANGED HandlerLocals
    /\ UNCHANGED <<businessesTable, appointmentsTable, authVars>>

\* fetch(request) rejected (offline): respondWith gets a rejected promise
\* and the page a network error.
FetchRejected ==
    /\ \E k \in 1..Len(fetchEvents) :
          /\ fetchEvents[k].stage = "fetching"
          /\ fetchEvents' = [fetchEvents EXCEPT ![k].stage = "failed"]
    /\ UNCHANGED <<swState, cache>>
    /\ UNCHANGED HandlerLocals
    /\ UNCHANGED <<businessesTable, appointmentsTable, authVars>>

InitSW ==
    /\ method = NULL
    /\ pc = "idle"
    /\ now = MetricsNow
    /\ businessesTable = <<>>
    /\ appointmentsTable = <<>>
    /\ listing = "none"
    /\ businesses = <<>>
    /\ idx = 0
    /\ firstDayLastMonth = NewDate(1970, 0, 1)
    /\ lastDayLastMonth = NewDate(1970, 0, 1)
    /\ queries = <<>>
    /\ appointments = <<>>
    /\ reportData = NoReport
    /\ emails = <<>>
    /\ console = <<>>
    /\ response = NoResponse
    /\ summaries = <<>>
    /\ history = <<>>
    /\ swState = "parsed"
    /\ cache = {}
    /\ fetchEvents = <<>>
    /\ modal = NULL
    /\ open = FALSE
    /\ loading = FALSE
    /\ captchaToken = NULL
    /\ showForgotPassword = FALSE
    /\ activeTab = "login"
    /\ fieldsValid = FALSE
    /\ tokensIssued = 0
    /\ authCalls = <<>>

NextSW ==
    \/ Install
    \/ InstallOk
    \/ InstallFail
    \/ FetchEvent
    \/ MatchResolved
    \/ FetchResolved
    \/ FetchRejected

SpecSW == InitSW /\ [][NextSW]_vars

-----------------------------------------------------------------------------
(* C19: requests the fetch listener hands to the network *)

Bypasses(request) == request.method # "GET" \/ request.origin # SelfOrigin

\* C19: for a fetch event whose request is not a GET or is to another
\* origin, the cache is never consulted: the request itself is handed to
\* fetch, and the answer, once there, is the response of the network to it.
C19_BypassesCache ==
    \A k \in 1..Len(fetchEvents) :
        Bypasses(fetchEvents[k].request) =>
            /\ fetchEvents[k].matched = NoRequest
            /\ fetchEvents[k].stage \in {"fetching", "answered", "failed"}
            /\ fetchEvents[k].fetched = fetchEvents[k].request
            /\ fetchEvents[k].stage = "answered" =>
                  fetchEvents[k].answer = ResponseOf(Url(fetchEvents[k].request), "network")

\* A POST to a url the cache holds and a GET to another origin have both
\* been answered by the network.
C19_Witness ==
    /\ \E e \in cache : e.url = SelfOrigin \o "/"
    /\ \E j, k \in 1..Len(fetchEvents) :
          /\ fetchEvents[j].request = Request("POST", SelfOrigin, "/")
          /\ fetchEvents[j].answer = ResponseOf(SelfOrigin \o "/", "network")
          /\ fetchEvents[k].request = Request("GET", OtherOrigin, "/")
          /\ fetchEvents[k].answer = ResponseOf(OtherOrigin \o "/", "network")

-----------------------------------------------------------------------------
(* C23: cache first, and a cache that only the install event writes *)

\* What the install event stores: the responses of the urls of urlsToCache.
StoredByInstall ==
    { [name |-> CACHE_NAME, url |-> SelfOrigin \o urlsToCache[i],
       response |-> ResponseOf(SelfOrigin \o urlsToCache[i], "install")] :
        i \in 1..Len(urlsToCache) }

\* The urls the cache holds a response of.
CachedUrls == { e.url : e \in cache }

\* C23: a same-origin GET is answered cache first: when the cache holds a
\* response of its url the answer is that response and the network is not
\* asked, otherwise the request goes to the network and the answer is the
\* network's; and no step of a fetch event changes the cache, which holds
\* exactly what the install event stored (nothing until it has stored).
C23_CacheFirst ==
    /\ [](\A k \in 1..Len(fetchEvents) :
            LET ev == fetchEvents[k]
            IN  ~Bypasses(ev.request) =>
                  /\ ev.matched = ev.request
                  /\ IF Url(ev.request) \in CachedUrls
                     THEN /\ ev.fetched = NoRequest
                          /\ ev.stage \in {"matching", "answered"}
                          /\ ev.stage = "answered" =>
                                \E e \in cache : e.url = Url(ev.request) /\ ev.answer = e.response
                     ELSE /\ ev.stage # "matching" => ev.fetched = ev.request
                          /\ ev.stage = "answered" =>
                                ev.answer = ResponseOf(Url(ev.request), "network"))
    /\ [](cache = IF swState = "activated" THEN StoredByInstall ELSE {})
    /\ [][fetchEvents' # fetchEvents => cache' = cache]_vars

\* After the install, a same-origin GET of a cached url was answered from
\* the cache and one of an uncached url by the network.
C23_Witness ==
    /\ cache = StoredByInstall
    /\ \E j, k \in 1..Len(fetchEvents) :
          /\ fetchEvents[j].request = Request("GET", SelfOrigin, "/")
          /\ fetchEvents[j].answer = ResponseOf(SelfOrigin \o "/", "install")
          /\ fetchEvents[k].request = Request("GET", SelfOrigin, "/api/sync")
          /\ fetchEvents[k].answer = ResponseOf(SelfOrigin \o "/api/sync", "network")

-----------------------------------------------------------------------------
(* The auth modals (src/components/auth/CustomerAuthModal.tsx):             *)
(* CustomerAuthModal and AuthModal.                                        *)
(*                                                                         *)
(* One of the two components is mounted. Every user event is one action:   *)
(* React renders after each state update, so an event meets the handlers   *)
(* and the disabled props of the current state. A handler runs to its      *)
(* await in the event that calls it and goes on when supabase.auth         *)
(* answers. Toasts are left out.                                           *)

Modals == {"CustomerAuthModal", "AuthModal"}

\* The token number n of the captcha widget.
Token(n) == "token" \o ToString(n)

\* What is not a part of the auth modals.
NotAuth == <<HandlerLocals, businessesTable, appointmentsTable, swVars>>

\* AuthCall without captchaToken among the options.
AuthCallNoCaptcha(kind, token) ==
    [kind |-> kind, captchaToken |-> NULL, result |-> "pending",
     tokenAfter |-> NULL, loadingAfter |-> FALSE]

\* A call supabase.auth.<kind>(..., { captchaToken }): the token passed,
\* its answer, and the states captchaToken and loading when its handler
\* has finished.
AuthCall(kind, token) ==
    [kind |-> kind, captchaToken |-> token, result |-> "pending",
     tokenAfter |-> NULL, loadingAfter |-> FALSE]

\* disabled={loading || !captchaToken} of the submit buttons
SubmitEnabled == ~loading /\ captchaToken # NULL

LoginShown == open /\ ~showForgotPassword /\ activeTab = "login"
SignupShown == open /\ ~showForgotPassword /\ activeTab = "signup"
ResetShown == open /\ showForgotPassword

\* The body of a handler up to its await: the checks before the captcha
\* test return at once, so does a missing token; a ZodError thrown by
\* schema.parse is caught (token cleared, loading false again); otherwise
\* loading is set and the call is issued with the token.
HandlerStart(kind, checksPass, parsePasses) ==
    IF ~checksPass \/ captchaToken = NULL
    THEN UNCHANGED <<loading, captchaToken, authCalls>>
    ELSE IF ~parsePasses
         THEN /\ loading' = FALSE
              /\ captchaToken' = NULL
              /\ UNCHANGED authCalls
         ELSE /\ Len(authCalls) < MaxAuthCalls
              /\ loading' = TRUE
              /\ authCalls' = Append(authCalls, AuthCall(kind, captchaToken))
              /\ UNCHANGED captchaToken

AuthFrame ==
    /\ UNCHANGED <<modal, open, showForgotPassword, activeTab, fieldsValid, tokensIssued>>
    /\ UNCHANGED NotAuth

\* CustomerAuthModal: click on "Log In" (onClick={handleLogin}).
CustomerClickLogin ==
    /\ modal = "CustomerAuthModal" /\ LoginShown /\ SubmitEnabled
    /\ HandlerStart("signInWithPassword", TRUE, fieldsValid)
    /\ AuthFrame

\* CustomerAuthModal: Enter in the password field, which is disabled while
\* loading: e.key === 'Enter' && captchaToken && handleLogin()
CustomerEnterLogin ==
    /\ modal = "CustomerAuthModal" /\ LoginShown /\ ~loading
    /\ IF captchaToken # NULL
       THEN HandlerStart("signInWithPassword", TRUE, fieldsValid)
       ELSE UNCHANGED <<loading, captchaToken, authCalls>>
    /\ AuthFrame

\* CustomerAuthModal: click on "Create Account" (onClick={handleSignup}).
CustomerClickSignup ==
    /\ modal = "CustomerAuthModal" /\ SignupShown /\ SubmitEnabled
    /\ HandlerStart("signUp", TRUE, fieldsValid)
    /\ AuthFrame

\* CustomerAuthModal: click on "Send Reset Link" (onClick={handleForgotPassword});
\* the handler first returns when the email is blank.
CustomerClickSendReset ==
    /\ modal = "CustomerAuthModal" /\ ResetShown /\ SubmitEnabled
    /\ HandlerStart("resetPasswordForEmail", fieldsValid, TRUE)
    /\ AuthFrame

\* AuthModal: the login form is submitted (button or Enter; a disabled
\* submit button blocks both): handleLogin, which has no check of the fields.
AuthSubmitLogin ==
    /\ modal = "AuthModal" /\ LoginShown /\ SubmitEnabled
    /\ HandlerStart("signInWithPassword", TRUE, TRUE)
    /\ AuthFrame

\* AuthModal: the sign-up form is submitted: handleSignUp returns first
\* when the passwords differ.
AuthSubmitSignUp ==
    /\ modal = "AuthModal" /\ SignupShown /\ SubmitEnabled
    /\ HandlerStart("signUp", fieldsValid, TRUE)
    /\ AuthFrame

\* AuthModal: the reset form is submitted: handleResetPassword returns
\* first when the email is empty or has no @.
AuthSubmitReset ==
    /\ modal = "AuthModal" /\ ResetShown /\ SubmitEnabled
    /\ HandlerStart("resetPasswordForEmail", fieldsValid, TRUE)
    /\ AuthFrame

\* The answers of a call: resolved without error ("ok"), resolved with an
\* error, or rejected; signUp also resolves without error and without
\* data.user, the case CustomerAuthModal.handleSignup tests with if (data.user).
Outcomes(kind) ==
    {"ok", "error", "throw"} \cup (IF kind = "signUp" THEN {"nouser"} ELSE {})

Pending == {k \in DOMAIN authCalls : authCalls[k].result = "pending"}

\* Does the handler's remainder call setCaptchaToken(null)?  AuthModal
\* does in its finally; CustomerAuthModal does in its catch and on the
\* success path, which for login and sign-up is inside if (data.user).
ClearsToken(m, kind, outcome) ==
    \/ m = "AuthModal"
    \/ outcome \in {"ok", "error", "throw"}

\* Does it call onOpenChange(false)?
ClosesDialog(m, kind, outcome) ==
    /\ kind \in {"signInWithPassword", "signUp"}
    /\ \/ outcome = "ok"
       \/ m = "AuthModal" /\ outcome = "nouser"

\* Does it leave the reset view and empty its form?
LeavesReset(m, kind, outcome) ==
    kind = "resetPasswordForEmail" /\ outcome = "ok"

\* The handler's remainder once call k is answered with outcome.
Resume(k, outcome) ==
    LET call == authCalls[k]
        cleared == ClearsToken(modal, call.kind, outcome)
        leaves == LeavesReset(modal, call.kind, outcome) IN
    /\ captchaToken' = IF cleared THEN NULL ELSE captchaToken
    /\ loading' = FALSE
    /\ open' = IF ClosesDialog(modal, call.kind, outcome) THEN FALSE ELSE open
    /\ showForgotPassword' = IF leaves THEN FALSE ELSE showForgotPassword
    /\ fieldsValid' = IF leaves THEN FALSE ELSE fieldsValid
    /\ activeTab' = IF leaves \/ ~open' THEN "login" ELSE activeTab
    /\ authCalls' = [authCalls EXCEPT ![k] =
                        [@ EXCEPT !.result = outcome,
                                  !.tokenAfter = IF cleared THEN NULL ELSE captchaToken,
                                  !.loadingAfter = FALSE]]
    /\ UNCHANGED <<modal, tokensIssued>>
    /\ UNCHANGED NotAuth

\* The call resolves without error (and with a user).
CallSucceeds ==
    \E k \in Pending : Resume(k, "ok")

\* signUp resolves with neither an error nor a user.
CallSucceedsWithoutUser ==
    \E k \in Pending : "nouser" \in Outcomes(authCalls[k].kind) /\ Resume(k, "nouser")

\* The call resolves with an error, which the handler throws, or rejects.
CallFails ==
    \E k \in Pending : \E outcome \in {"error", "throw"} : Resume(k, outcome)

\* The user edits the form shown; CustomerAuthModal disables its inputs
\* while loading.
Typing ==
    /\ open
    /\ modal = "CustomerAuthModal" => ~loading
    /\ fieldsValid' = ~fieldsValid
    /\ UNCHANGED <<modal, open, loading, captchaToken, showForgotPassword, activeTab,
                   tokensIssued, authCalls>>
    /\ UNCHANGED NotAuth

\* onVerify={(token) => setCaptchaToken(token)} with a token never seen before.
CaptchaVerify ==
    /\ open
    /\ tokensIssued < MaxTokens
    /\ tokensIssued' = tokensIssued + 1
    /\ captchaToken' = Token(tokensIssued')
    /\ UNCHANGED <<modal, open, loading, showForgotPassword, activeTab, fieldsValid, authCalls>>
    /\ UNCHANGED NotAuth

\* onExpire={() => setCaptchaToken(null)}
CaptchaExpire ==
    /\ open
    /\ captchaToken # NULL
    /\ captchaToken' = NULL
    /\ UNCHANGED <<modal, open, loading, showForgotPassword, activeTab, fieldsValid,
                   tokensIssued, authCalls>>
    /\ UNCHANGED NotAuth

\* onError={() => setCaptchaToken(null)}
CaptchaError ==
    /\ open
    /\ captchaToken' = NULL
    /\ UNCHANGED <<modal, open, loading, showForgotPassword, activeTab, fieldsValid,
                   tokensIssued, authCalls>>
    /\ UNCHANGED NotAuth

\* The other tab of <Tabs defaultValue="login">; its form holds what was
\* typed into it before.
SwitchTab ==
    /\ open /\ ~showForgotPassword
    /\ activeTab' = IF activeTab = "login" THEN "signup" ELSE "login"
    /\ fieldsValid' \in BOOLEAN
    /\ UNCHANGED <<modal, open, loading, captchaToken, showForgotPassword,
                   tokensIssued, authCalls>>
    /\ UNCHANGED NotAuth

\* "Forgot password?" in the login tab, enabled while loading too.
\* CustomerAuthModal also clears the token; AuthModal keeps it.
ClickForgotPassword ==
    /\ LoginShown
    /\ showForgotPassword' = TRUE
    /\ captchaToken' = IF modal = "CustomerAuthModal" THEN NULL ELSE captchaToken
    /\ fieldsValid' \in BOOLEAN
    /\ UNCHANGED <<modal, open, loading, activeTab, tokensIssued, authCalls>>
    /\ UNCHANGED NotAuth

\* "Back" / "Back to Login": the token is cleared and the tabs mount again on
\* "login"; CustomerAuthModal disables the button while loading and
\* empties the email.
ClickBack ==
    /\ ResetShown
    /\ modal = "CustomerAuthModal" => ~loading
    /\ showForgotPassword' = FALSE
    /\ captchaToken' = NULL
    /\ activeTab' = "login"
    /\ fieldsValid' \in BOOLEAN
    /\ UNCHANGED <<modal, open, loading, tokensIssued, authCalls>>
    /\ UNCHANGED NotAuth

\* The user closes the dialog: <Dialog onOpenChange={onOpenChange}>. The
\* component keeps its state; the tabs are unmounted.
CloseDialog ==
    /\ open
    /\ open' = FALSE
    /\ activeTab' = "login"
    /\ UNCHANGED <<modal, loading, captchaToken, showForgotPassword, fieldsValid,
                   tokensIssued, authCalls>>
    /\ UNCHANGED NotAuth

\* The parent opens the dialog again.
OpenDialog ==
    /\ ~open
    /\ open' = TRUE
    /\ UNCHANGED <<modal, loading, captchaToken, showForgotPassword, activeTab, fieldsValid,
                   tokensIssued, authCalls>>
    /\ UNCHANGED NotAuth

\* One of the modals is open, as its useState initial values make it.
InitAuth ==
    /\ method = NULL
    /\ pc = "idle"
    /\ now = MetricsNow
    /\ businessesTable = <<>>
    /\ appointmentsTable = <<>>
    /\ listing = "none"
    /\ businesses = <<>>
    /\ idx = 0
    /\ firstDayLastMonth = NewDate(1970, 0, 1)
    /\ lastDayLastMonth = NewDate(1970, 0, 1)
    /\ queries = <<>>
    /\ appointments = <<>>
    /\ reportData = NoReport
    /\ emails = <<>>
    /\ console = <<>>
    /\ response = NoResponse
    /\ summaries = <<>>
    /\ history = <<>>
    /\ swState = "parsed"
    /\ cache = {}
    /\ fetchEvents = <<>>
    /\ modal \in Modals
    /\ open = TRUE
    /\ loading = FALSE
    /\ captchaToken = NULL
    /\ showForgotPassword = FALSE
    /\ activeTab = "login"
    /\ fieldsValid = FALSE
    /\ tokensIssued = 0
    /\ authCalls = <<>>

NextAuth ==
    \/ Typing
    \/ CaptchaVerify
    \/ CaptchaExpire
    \/ CaptchaError
    \/ SwitchTab
    \/ ClickForgotPassword
    \/ ClickBack
    \/ CloseDialog
    \/ OpenDialog
    \/ CustomerClickLogin
    \/ CustomerEnterLogin
    \/ CustomerClickSignup
    \/ CustomerClickSendReset
    \/ AuthSubmitLogin
    \/ AuthSubmitSignUp
    \/ AuthSubmitReset
    \/ CallSucceeds
    \/ CallSucceedsWithoutUser
    \/ CallFails

SpecAuth == InitAuth /\ [][NextAuth]_vars

-----------------------------------------------------------------------------
\* C21: in both modals, whatever the user events before, a call to
\* supabase.auth is issued only in a state whose captchaToken is not null,
\* and the call carries that very token.
C21_TokenRequired ==
    [][Len(authCalls') > Len(authCalls) =>
          /\ captchaToken # NULL
          /\ authCalls'[Len(authCalls')].captchaToken = captchaToken]_vars

\* AuthModal after a failed login with the first token: the reset view has
\* issued resetPasswordForEmail with the second token.
C21_Witness ==
    /\ modal = "AuthModal"
    /\ showForgotPassword
    /\ loading
    /\ Len(authCalls) = 2
    /\ authCalls[1].kind = "signInWithPassword"
    /\ authCalls[1].captchaToken = Token(1)
    /\ authCalls[1].result = "error"
    /\ authCalls[2].kind = "resetPasswordForEmail"
    /\ authCalls[2].captchaToken = Token(2)
    /\ authCalls[2].result = "pending"

-----------------------------------------------------------------------------
\* C22: a captcha token is used once: when a handler that passed the token
\* to supabase.auth has finished, whatever the answer, captchaToken is null
\* and loading is false, and no two calls carry the same token.
C22_SingleUse ==
    /\ \A k \in DOMAIN authCalls :
          authCalls[k].result # "pending" =>
              /\ authCalls[k].tokenAfter = NULL
              /\ authCalls[k].loadingAfter = FALSE
    /\ \A j, k \in DOMAIN authCalls :
          j < k => authCalls[j].captchaToken # authCalls[k].captchaToken

====
